---- MODULE Spec2Model ----
(***************************************************************************)
(* gcplog: HTTP middleware that observes one request/response cycle,       *)
(* classifies the outcome by status code and emits a log record (and, in   *)
(* production, an error report).  The repository holds several variants of *)
(* the adapter and of the emitter; a deployment uses one pairing:          *)
(*   "RM"     mw_gcplog.go:1-163    with the emitter of part_003:405-653   *)
(*   "Meta"   unnamed/part_000      with the emitter of gcplog.go          *)
(*   "Gin"    gin_gcplog.go:150-213 with the emitter of part_003:405-653   *)
(*   "Client" mw_gcplog.go:165-308  with the emitter of part_003:1-187     *)
(*                                                                         *)
(* Specifications:                                                         *)
(*   Spec        requests through an adapter, one after the other, with    *)
(*               the goroutines the emitter dispatched                     *)
(*   WriterSpec  the response interceptor over a sink whose writes can fail *)
(*   TraceSpec   the trace fields an emitter derives from one header value *)
(*   LibSpec     construction of an emitter and calls made on it directly  *)
(*   ConcSpec    requests of the per-request-client middleware in parallel *)
(***************************************************************************)
EXTENDS Integers, Sequences, FiniteSets, Bags, TLC

(* ------------------------------ bounds --------------------------------- *)
MaxRequests == 2
MaxOps == 2
MaxCalls == 2
MaxConcurrent == 2
MaxIdLen == 2
MaxHeaderLen == 4

(* --------------------------- input domains ----------------------------- *)
Variants == {"RM", "Meta", "Gin", "Client"}
EnvValues == {"", "production", "staging"}
StatusInternalServerError == 500
Codes == {399, 400, 499, StatusInternalServerError}
Chunks == {<<"n">>, <<"%">>}
(* how a Write on the underlying sink ends; the request flow is checked    *)
(* with a sink that accepts every write                                    *)
WriteResults == {"ok", "fail"}
FlowWriteResults == {"ok"}
HeaderLens == {2}
Requests == {[method |-> "GET", path |-> "/p"]}
GinErrors == {<<"e">>}
PanicValues ==
  { [kind |-> "error", text |-> <<"E">>],
    [kind |-> "string", text |-> <<"s">>],
    [kind |-> "other", text |-> <<"7">>] }

None == <<>>
Some(x) == <<x>>

(* arguments of the constructors and what creating the two remote clients *)
(* can come to                                                             *)
ProjectIdArgs == {"", "p"}
ServiceNameArgs == {"", "s"}
ResourceArgs == {"", "r"}
Dials == {"ok", "logging.NewClient fails", "errorreporting.NewClient fails"}
Logs == {<<"l">>}
Errs == {<<"E">>}

SeqsUpTo(S, n) == UNION {[1..k -> S] : k \in 0..n}

(* X-Cloud-Trace-Context values: the ones of the shape                     *)
(* TRACE_ID[/SPAN_ID][;o=TRACE_SAMPLED], given by their parts, and every   *)
(* text over HeaderChars up to MaxHeaderLen characters                     *)
IdChars == {"a", "0", "1"}
SampledChars == {"0", "1", "9"}
HeaderChars == {"a", "0", "1", "A", "/", ";", "o", "="}
Ids == SeqsUpTo(IdChars, MaxIdLen) \ {<<>>}
ProjectIds == {"p", "q"}
TraceInputs ==
  [kind : {"shaped"}, traceId : Ids, spanId : {None} \cup {Some(x) : x \in Ids},
   sampled : {None} \cup {Some(c) : c \in SampledChars}]
  \cup [kind : {"raw"}, text : SeqsUpTo(HeaderChars, MaxHeaderLen)]

(* r.Header.Get("X-Cloud-Trace-Context") *)
Header(in) ==
  IF in.kind = "raw" THEN in.text
  ELSE in.traceId
       \o (IF in.spanId = None THEN <<>> ELSE <<"/">> \o in.spanId[1])
       \o (IF in.sampled = None THEN <<>> ELSE <<";", "o", "=", in.sampled[1]>>)

VARIABLES variant, pc, rid, req, ops, panicVal, rw, sink, ginErrors,
          clientClosed, pending, logSink, errSink, emitCalls, handed, hist,
          traceInput, traced,
          _projectId, _serviceName, _resource, instance, clients, outcome,
          cpc, cfg, inst

(* the request flow through the adapters *)
flowVars == <<variant, pc, rid, req, ops, panicVal, rw, sink, ginErrors,
              clientClosed, hist>>
(* the trace extractor applied to one X-Cloud-Trace-Context value *)
traceVars == <<traceInput, traced>>
(* the package globals of part_003:41-43 *)
globals == <<_projectId, _serviceName, _resource>>
(* construction of an emitter and the calls made on it directly *)
libVars == <<instance, clients, outcome>>
(* requests of the per-request-client middleware running concurrently *)
concVars == <<cpc, cfg, inst>>

aux == <<traceVars, globals, libVars, concVars>>

vars == <<variant, pc, rid, req, ops, panicVal, rw, sink, ginErrors,
          clientClosed, pending, logSink, errSink, emitCalls, handed, hist,
          traceInput, traced,
          _projectId, _serviceName, _resource, instance, clients, outcome,
          cpc, cfg, inst>>

(* ------------------------- text and formatting ------------------------- *)
MethodPath(r) == <<r.method, " ", r.path>>

defaultLogBuilder(r) == MethodPath(r)

RECURSIVE Errorf(_)
Errorf(s) ==
  IF s = <<>> THEN <<>>
  ELSE IF Head(s) # "%" THEN <<Head(s)>> \o Errorf(Tail(s))
  ELSE IF Len(s) = 1 THEN <<"%", "!", "(NOVERB)">>
  ELSE IF s[2] = "%" THEN <<"%">> \o Errorf(SubSeq(s, 3, Len(s)))
  ELSE <<"%", "!", s[2], "(MISSING)">> \o Errorf(SubSeq(s, 3, Len(s)))

(* body is Some(bytes) for a non-nil *bytes.Buffer, None for nil *)
defaultErrorBuilder(r, status, size, body) ==
  IF body # None THEN Some(Errorf(body[1]))
  ELSE Some(Errorf(MethodPath(r)))

(* --------------------------- classification ---------------------------- *)
(* the first threshold taken inclusive *)
ClassifyInclusive(status) ==
  IF status <= 400 THEN "INFO"
  ELSE IF status < 500 THEN "WARNING"
  ELSE "ERROR"

Classify(status) ==
  IF status < 400 THEN "INFO"
  ELSE IF status >= 400 /\ status < 500 THEN "WARNING"
  ELSE "ERROR"

(* --------------------------- trace extractor --------------------------- *)
(* the character classes \d and [a-f\d] of the pattern *)
Digits == {"0", "1", "2", "3", "4", "5", "6", "7", "8", "9"}
HexLower == Digits \cup {"a", "b", "c", "d", "e", "f"}

(* the index after the longest run of [a-f\d] that starts at i *)
RECURSIVE HexRun(_, _)
HexRun(s, i) ==
  IF i <= Len(s) /\ s[i] \in HexLower THEN HexRun(s, i + 1) ELSE i

(* traceRegex.FindStringSubmatch(s): the pattern                           *)
(*   ([a-f\d]+)?(?:/([a-f\d]+))?(?:;o=(\d))?                               *)
(* is not anchored and each group is optional, so the leftmost match       *)
(* starts at the first character (and may be empty); each group is greedy. *)
(* Yields the submatches 1, 2, 3.                                          *)
FindStringSubmatch(s) ==
  LET i1 == HexRun(s, 1)
      hasSpan == /\ i1 <= Len(s)
                 /\ s[i1] = "/"
                 /\ HexRun(s, i1 + 1) > i1 + 1
      i2 == IF hasSpan THEN HexRun(s, i1 + 1) ELSE i1
      hasO == /\ i2 + 3 <= Len(s)
              /\ s[i2] = ";"
              /\ s[i2 + 1] = "o"
              /\ s[i2 + 2] = "="
              /\ s[i2 + 3] \in Digits
  IN << SubSeq(s, 1, i1 - 1),
        IF hasSpan THEN SubSeq(s, i1 + 1, i2 - 1) ELSE <<>>,
        IF hasO THEN <<s[i2 + 3]>> ELSE <<>> >>

(* fmt.Sprintf("projects/%s/traces/%s", projectId, traceId) *)
TraceName(projectId, traceId) == <<"projects/", projectId, "/traces/">> \o traceId

(* part_003:386-403: projectId is a parameter the function never reads *)
parseTrace2(h, projectId) ==
  LET matches == FindStringSubmatch(h)
  IN [ traceId |-> matches[1],
       spanId |-> IF matches[2] = <<"0">> THEN <<>> ELSE matches[2],
       traceSampled |-> matches[3] = <<"1">> ]

(* parseTrace without the normalisation of span "0" *)
parseTraceKeepSpanZero(h, projectId) ==
  LET matches == FindStringSubmatch(h)
  IN [ traceId |-> IF matches[1] # <<>> THEN TraceName(projectId, matches[1])
                   ELSE matches[1],
       spanId |-> matches[2],
       traceSampled |-> matches[3] = <<"1">> ]

(* part_003:633-653 *)
parseTrace3(h, projectId) ==
  LET matches == FindStringSubmatch(h)
  IN [ traceId |-> IF matches[1] # <<>> THEN TraceName(projectId, matches[1])
                   ELSE matches[1],
       spanId |-> IF matches[2] = <<"0">> THEN <<>> ELSE matches[2],
       traceSampled |-> matches[3] = <<"1">> ]

(* strings.Split(traceHeader, "/")[0]: the text before the first "/" *)
RECURSIVE SplitFirst(_, _)
SplitFirst(s, i) ==
  IF i > Len(s) \/ s[i] = "/" THEN SubSeq(s, 1, i - 1) ELSE SplitFirst(s, i + 1)

(* part_000:219-227 *)
parseTrace0(h, projectId) ==
  LET traceParts0 == SplitFirst(h, 1)
  IN IF Len(traceParts0) > 0 THEN TraceName(projectId, traceParts0) ELSE <<>>

(* ------------------- the underlying response sink ---------------------- *)
(* net/http's ResponseWriter behind the interceptor: it records every      *)
(* WriteHeader call it receives (and whether the call came through the     *)
(* interceptor), commits the first one, and commits an implicit 200 on a   *)
(* Write that precedes any WriteHeader.  gin's writer starts at status 200 *)
(* and keeps the last code set before the first write.                     *)
NewSink(v) ==
  [ hdrCalls |-> <<>>, status |-> IF v = "Gin" THEN 200 ELSE 0,
    written |-> FALSE, body |-> <<>>, writes |-> <<>> ]

SinkWriteHeader(s, code, wrapped) ==
  [s EXCEPT !.hdrCalls = Append(@, [code |-> code, wrapped |-> wrapped]),
            !.status = IF s.written THEN @ ELSE code,
            !.written = TRUE]

(* what the underlying Write returns: (len(b), nil), or (0, err) when the  *)
(* connection fails                                                        *)
Ret(b, res) ==
  IF res = "ok" THEN [n |-> Len(b), err |-> FALSE] ELSE [n |-> 0, err |-> TRUE]

(* writes keeps each call the sink received with what it returned, body    *)
(* the bytes it accepted                                                   *)
SinkWrite(s, b, res) ==
  [s EXCEPT !.status = IF s.written THEN @ ELSE 200,
            !.written = TRUE,
            !.body = @ \o SubSeq(b, 1, Ret(b, res).n),
            !.writes = Append(@, [b |-> b, ret |-> Ret(b, res)])]

(* what the sink's last Write returned *)
SinkRet(s) == s.writes[Len(s.writes)].ret

GinWriteHeader(s, code) ==
  [s EXCEPT !.hdrCalls = Append(@, [code |-> code, wrapped |-> TRUE]),
            !.status = IF s.written THEN @ ELSE code]

GinWrite(s, b, res) ==
  [s EXCEPT !.written = TRUE,
            !.body = @ \o SubSeq(b, 1, Ret(b, res).n),
            !.writes = Append(@, [b |-> b, ret |-> Ret(b, res)])]

(* ----------------------- response interceptor -------------------------- *)
wrapResponseWriter ==
  [status |-> 0, size |-> 0, body |-> <<>>, wroteHeader |-> FALSE]

(* the interceptor without its wroteHeader latch *)
WriteHeaderNoLatch(w, s, code, h) ==
  [ rw |-> [w EXCEPT !.status = code, !.size = @ + h, !.wroteHeader = TRUE],
    sink |-> SinkWriteHeader(s, code, TRUE) ]

(* WriteHeader on the interceptor; h is the serialized length of the       *)
(* header map at the time of the call.  Yields the interceptor and sink.   *)
WriteHeader(w, s, code, h) ==
  IF w.wroteHeader THEN [rw |-> w, sink |-> s]
  ELSE [ rw |-> [w EXCEPT !.status = code, !.size = @ + h, !.wroteHeader = TRUE],
         sink |-> SinkWriteHeader(s, code, TRUE) ]

(* Write reporting every byte as written, whatever the sink returned *)
WriteReportsAll(w, s, b, res) ==
  [ rw |-> [w EXCEPT !.body = @ \o b], sink |-> SinkWrite(s, b, res),
    ret |-> [n |-> Len(b), err |-> FALSE] ]

(* Write on the interceptor: the interceptor, the sink and the (int, error) *)
(* returned to the handler                                                 *)
Write(w, s, b, res) ==
  [ rw |-> [w EXCEPT !.body = @ \o b], sink |-> SinkWrite(s, b, res),
    ret |-> SinkRet(SinkWrite(s, b, res)) ]

bodyLogWriterWrite(w, s, b, res) ==
  [ rw |-> [w EXCEPT !.body = @ \o b], sink |-> GinWrite(s, b, res),
    ret |-> SinkRet(GinWrite(s, b, res)) ]

Status(w) == w.status
Size(w) == w.size

(* ------------------------------ emitters ------------------------------- *)
(* An emitter operation maps the emitter state                             *)
(*   [pending, logSink, errSink, calls, handed, closed, env, ok]           *)
(* to the state after the call.  pending holds the goroutines started with *)
(* `go` that have not run yet; handed holds, in full, the entries handed   *)
(* to the logger for the request in flight; closed says whether the client *)
(* has been closed; env is what os.Getenv("GO_ENV") returns during the     *)
(* call; ok = FALSE when the call panicked.  The sinks keep of an entry    *)
(* its severity and attachments.                                           *)
Em(env, closed) ==
  [ pending |-> pending, logSink |-> logSink, errSink |-> errSink,
    calls |-> emitCalls, handed |-> handed, closed |-> closed,
    env |-> env, ok |-> TRUE ]

Production(em) == em.env = "production"

(* a logging.Entry / JSON line as handed to the logger: payload is None   *)
(* for a nil value, http says whether an HTTP request descriptor is        *)
(* attached, closed whether the client was already closed                  *)
Entry(em, sev, payload, http, st, sz) ==
  [ sev |-> sev, payload |-> payload, http |-> http, status |-> st,
    size |-> sz, closed |-> em.closed ]

Sunk(e) == [sev |-> e.sev, http |-> e.http]

(* an errorreporting.Entry: nilErr says Error is nil, stack whether the    *)
(* caller set Stack, req whether Req is set; env is the GO_ENV value the   *)
(* gate in front of the report read                                        *)
Report(em, err, stack, reqAttached) ==
  [ nilErr |-> err = None, stack |-> stack, req |-> reqAttached,
    env |-> em.env ]

(* a Log call reads no environment; Warn and Error read GO_ENV once *)
Called(em, sev) ==
  [em EXCEPT !.calls = @ (+) SetToBag({[sev |-> sev,
                 env |-> IF sev = "INFO" THEN "" ELSE em.env]})]

(* --- part_003:405-653, every call dispatched with `go` --- *)
(* meta is None for a nil *ResponseMetadata, else Some([status, size]) *)
parseRequest3(meta) ==
  IF meta # None THEN [status |-> meta[1].status, size |-> meta[1].size]
  ELSE [status |-> 0, size |-> 0]

log3(em, payload, hasReq, meta, sev) ==
  LET hr == parseRequest3(meta)
      e  == IF hasReq THEN Entry(em, sev, payload, TRUE, hr.status, hr.size)
            ELSE Entry(em, sev, payload, FALSE, 0, 0)
  IN [em EXCEPT !.handed = Append(@, e),
                !.pending = @ (+) SetToBag({[kind |-> "log", item |-> Sunk(e)]})]

err3(em, err, hasReq) ==
  [em EXCEPT !.pending =
     @ (+) SetToBag({[kind |-> "err", item |-> Report(em, err, TRUE, hasReq)]})]

LogRM(em, log, hasReq, meta) ==
  log3(Called(em, "INFO"), Some(log), hasReq, meta, "INFO")

WarnRM(em, err, hasReq, meta) ==
  LET e1 == log3(Called(em, "WARNING"), err, hasReq, meta, "WARNING")
  IN IF Production(em) THEN err3(e1, err, hasReq) ELSE e1

ErrorRM(em, err, hasReq, meta) ==
  LET e1 == log3(Called(em, "ERROR"), err, hasReq, meta, "ERROR")
  IN IF Production(em) THEN err3(e1, err, hasReq) ELSE e1

ErrorR(em, err, hasReq) ==
  LET e1 == log3(Called(em, "ERROR"), err, hasReq, None, "ERROR")
  IN IF Production(em) THEN err3(e1, err, hasReq) ELSE e1

(* --- gcplog.go, JSON lines on stderr, synchronous --- *)
(* metadata is None for a nil *LogMetadata, else Some([request |-> BOOLEAN]) *)
log4(em, payload, metadata, sev) ==
  IF metadata = None THEN [em EXCEPT !.ok = FALSE]
  ELSE LET e == Entry(em, sev, payload, metadata[1].request, 0, 0)
       IN [em EXCEPT !.handed = Append(@, e),
                     !.logSink = @ (+) SetToBag({Sunk(e)})]

err4(em, err, stacktrace, metadata) ==
  [em EXCEPT !.errSink =
     @ (+) SetToBag({Report(em, err, stacktrace,
                            metadata # None /\ metadata[1].request)})]

LogWithMeta(em, log, meta) ==
  log4(Called(em, "INFO"), Some(log), Some(meta), "INFO")

Warn4(em, ee) ==
  LET e1 == log4(Called(em, "WARNING"), ee.err, ee.meta, "WARNING")
  IN IF e1.ok /\ Production(em)
     THEN err4(e1, ee.err, ee.stackTrace, ee.meta) ELSE e1

Error4(em, ee) ==
  LET e1 == log4(Called(em, "ERROR"), ee.err, ee.meta, "ERROR")
  IN IF e1.ok /\ Production(em)
     THEN err4(e1, ee.err, ee.stackTrace, ee.meta) ELSE e1

(* gcplog.go:112-114: Log passes a nil *LogMetadata *)
Log4(em, log) ==
  log4(Called(em, "INFO"), Some(log), None, "INFO")

(* --- part_003:1-187, remote client, synchronous --- *)
(* an entry is [err or log, stackTrace: BOOLEAN,                           *)
(*              request: None or Some([status, size])]                     *)
Entry1(em, sev, payload, request) ==
  IF request # None
  THEN Entry(em, sev, payload, TRUE, request[1].status, request[1].size)
  ELSE Entry(em, sev, payload, FALSE, 0, 0)

Log1(em, le) ==
  LET e == Entry1(em, "INFO", Some(le.log), le.request)
  IN [Called(em, "INFO") EXCEPT !.handed = Append(@, e),
                                !.logSink = @ (+) SetToBag({Sunk(e)})]

Warn1(em, ee) ==
  LET e  == Entry1(em, "WARNING", ee.err, ee.request)
      e1 == [Called(em, "WARNING") EXCEPT !.handed = Append(@, e),
                                          !.logSink = @ (+) SetToBag({Sunk(e)})]
  IN IF Production(em)
     THEN [e1 EXCEPT !.errSink =
             @ (+) SetToBag({Report(em, ee.err, FALSE, ee.request # None)})]
     ELSE e1

Error1(em, ee) ==
  LET e  == Entry1(em, "ERROR", ee.err, ee.request)
      e1 == [Called(em, "ERROR") EXCEPT !.handed = Append(@, e),
                                        !.logSink = @ (+) SetToBag({Sunk(e)})]
  IN IF Production(em)
     THEN [e1 EXCEPT !.errSink =
             @ (+) SetToBag({Report(em, ee.err, ee.stackTrace, ee.request # None)})]
     ELSE e1

(* ------------------------------- state --------------------------------- *)
Final == {"IDLE", "EMITTED", "PROPAGATED"}

reqVars == <<rid, req, ops, panicVal, rw, sink, ginErrors, hist>>
emVars == <<pending, logSink, errSink, emitCalls, handed>>

(* hist: what the handler of the request in flight has done: the codes it  *)
(* passed to WriteHeader, the header length at the first call, the chunks  *)
(* it passed to Write with their total length, and what Write returned     *)
NoHist ==
  [calls |-> <<>>, hlen |-> 0, wlen |-> 0, passed |-> <<>>, rets |-> <<>>]

(* no request in flight, nothing emitted *)
FlowInit(vs) ==
  /\ variant \in vs
  /\ pc = "IDLE"
  /\ rid = 0
  /\ req \in Requests
  /\ ops = 0
  /\ panicVal = None
  /\ rw = wrapResponseWriter
  /\ sink = NewSink(variant)
  /\ ginErrors = <<>>
  /\ clientClosed = FALSE
  /\ pending = EmptyBag
  /\ logSink = EmptyBag
  /\ errSink = EmptyBag
  /\ emitCalls = EmptyBag
  /\ handed = <<>>
  /\ hist = NoHist

TraceIdle ==
  /\ traceInput = [kind |-> "raw", text |-> <<>>]
  /\ traced = None

(* var _projectId string; var _serviceName string; var _resource string *)
GlobalsInit ==
  /\ _projectId = ""
  /\ _serviceName = ""
  /\ _resource = ""

(* outcome: the last constructor or emitter call made directly, with the   *)
(* identifiers it was made with and how it ended                           *)
NoOutcome == [op |-> "none", projectId |-> "", serviceName |-> "", result |-> "none"]

LibIdle ==
  /\ instance = None
  /\ clients = 0
  /\ outcome = NoOutcome

ConcIdle ==
  /\ cpc = <<>>
  /\ cfg = <<>>
  /\ inst = <<>>

Init ==
  /\ FlowInit(Variants)
  /\ TraceIdle
  /\ GlobalsInit
  /\ LibIdle
  /\ ConcIdle

Apply(em) ==
  /\ pending' = em.pending
  /\ logSink' = em.logSink
  /\ errSink' = em.errSink
  /\ emitCalls' = em.calls
  /\ handed' = em.handed

(* the host server invokes the wrapper fn with a fresh response sink; the  *)
(* deferred functions are registered and the sink is wrapped               *)
Enter(r) ==
  /\ pc \in Final
  /\ rid < MaxRequests
  /\ rid' = rid + 1
  /\ req' = r
  /\ pc' = "ENTERED"
  /\ ops' = 0
  /\ panicVal' = None
  /\ rw' = wrapResponseWriter
  /\ sink' = NewSink(variant)
  /\ ginErrors' = <<>>
  /\ clientClosed' = FALSE
  /\ handed' = <<>>
  /\ hist' = NoHist
  /\ UNCHANGED <<aux, variant, pending, logSink, errSink, emitCalls>>

(* next.ServeHTTP(wrapped, r) / c.Next() *)
Serve ==
  /\ pc = "ENTERED"
  /\ pc' = "HANDLER_RUNNING"
  /\ UNCHANGED <<aux, variant, clientClosed, reqVars, emVars>>

(* ------------------------ the downstream handler ----------------------- *)
HandlerWriteHeader(code, h) ==
  /\ pc = "HANDLER_RUNNING"
  /\ ops < MaxOps
  /\ ops' = ops + 1
  /\ IF variant = "Gin"
     THEN /\ sink' = GinWriteHeader(sink, code)
          /\ rw' = rw
     ELSE LET r == WriteHeader(rw, sink, code, h)
          IN /\ rw' = r.rw
             /\ sink' = r.sink
  /\ hist' = [hist EXCEPT !.calls = Append(@, code),
                          !.hlen = IF hist.calls = <<>> THEN h ELSE @]
  /\ UNCHANGED <<aux, variant, pc, rid, req, panicVal, ginErrors, clientClosed, emVars>>

HandlerWrite(b, res) ==
  /\ pc = "HANDLER_RUNNING"
  /\ ops < MaxOps
  /\ ops' = ops + 1
  /\ LET r == CASE variant = "Gin" -> bodyLogWriterWrite(rw, sink, b, res)
                [] variant = "Client" ->
                     [rw |-> rw, sink |-> SinkWrite(sink, b, res),
                      ret |-> SinkRet(SinkWrite(sink, b, res))]
                [] OTHER -> Write(rw, sink, b, res)
     IN /\ rw' = r.rw
        /\ sink' = r.sink
        /\ hist' = [hist EXCEPT !.wlen = @ + Len(b),
                                !.passed = Append(@, b),
                                !.rets = Append(@, r.ret)]
  /\ UNCHANGED <<aux, variant, pc, rid, req, panicVal, ginErrors, clientClosed, emVars>>

(* c.Error(e) in a gin handler *)
HandlerGinError(e) ==
  /\ pc = "HANDLER_RUNNING"
  /\ variant = "Gin"
  /\ ops < MaxOps
  /\ ops' = ops + 1
  /\ ginErrors' = Append(ginErrors, e)
  /\ UNCHANGED <<aux, variant, pc, rid, req, panicVal, rw, sink, hist, clientClosed, emVars>>

HandlerReturn ==
  /\ pc = "HANDLER_RUNNING"
  /\ pc' = "COMPLETED"
  /\ UNCHANGED <<aux, variant, clientClosed, reqVars, emVars>>

HandlerPanic(v) ==
  /\ pc = "HANDLER_RUNNING"
  /\ pc' = "PANICKED"
  /\ panicVal' = Some(v)
  /\ UNCHANGED <<aux, variant, rid, req, ops, rw, sink, ginErrors, hist, clientClosed, emVars>>

(* -------------------------- middleware adapters ------------------------ *)
(* err.(error): the type assertion on the recovered value *)
IsError(v) == v.kind = "error"

(* --- mw_gcplog.go:122-163 --- *)
middlewareRM(em) ==
  LET status == rw.status
      log == defaultLogBuilder(req)
      err == defaultErrorBuilder(req, rw.status, rw.size, Some(rw.body))
      responseMeta == Some([status |-> Status(rw), size |-> Size(rw)])
      sev == Classify(status)
  IN CASE sev = "INFO" -> LogRM(em, log, TRUE, responseMeta)
       [] sev = "WARNING" -> WarnRM(em, err, TRUE, responseMeta)
       [] OTHER -> ErrorRM(em, err, TRUE, responseMeta)

(* the after-request code made to wait until the entries dispatched so far *)
(* have reached the sink                                                   *)
AfterRequestRMFlush(env) ==
  /\ pc = "COMPLETED"
  /\ variant = "RM"
  /\ pending = EmptyBag
  /\ Apply(middlewareRM(Em(env, clientClosed)))
  /\ pc' = "EMITTED"
  /\ UNCHANGED <<aux, variant, clientClosed, reqVars>>

AfterRequestRM(env) ==
  /\ pc = "COMPLETED"
  /\ variant = "RM"
  /\ Apply(middlewareRM(Em(env, clientClosed)))
  /\ pc' = "EMITTED"
  /\ UNCHANGED <<aux, variant, clientClosed, reqVars>>

RecoverRM(env) ==
  /\ pc = "PANICKED"
  /\ variant = "RM"
  /\ sink' = SinkWriteHeader(sink, StatusInternalServerError, FALSE)
  /\ IF IsError(panicVal[1])
     THEN /\ Apply(ErrorR(Em(env, clientClosed), Some(panicVal[1].text), TRUE))
          /\ pc' = "EMITTED"
     ELSE /\ UNCHANGED emVars
          /\ pc' = "PROPAGATED"
  /\ UNCHANGED <<aux, variant, rid, req, ops, panicVal, rw, ginErrors, hist, clientClosed>>

(* --- unnamed/part_000:126-193 with gcplog.go --- *)
middlewareMeta(em) ==
  LET status == rw.status
      log == defaultLogBuilder(req)
      err == defaultErrorBuilder(req, rw.status, rw.size, Some(rw.body))
      meta == [request |-> TRUE]
      sev == Classify(status)
  IN CASE sev = "INFO" -> LogWithMeta(em, log, meta)
       [] sev = "WARNING" ->
            Warn4(em, [err |-> err, stackTrace |-> TRUE, meta |-> Some(meta)])
       [] OTHER ->
            Error4(em, [err |-> err, stackTrace |-> TRUE, meta |-> Some(meta)])

AfterRequestMeta(env) ==
  /\ pc = "COMPLETED"
  /\ variant = "Meta"
  /\ Apply(middlewareMeta(Em(env, clientClosed)))
  /\ pc' = "EMITTED"
  /\ UNCHANGED <<aux, variant, clientClosed, reqVars>>

RecoverMeta(env) ==
  /\ pc = "PANICKED"
  /\ variant = "Meta"
  /\ sink' = SinkWriteHeader(sink, StatusInternalServerError, FALSE)
  /\ IF IsError(panicVal[1])
     THEN LET em == Error4(Em(env, clientClosed),
                           [err |-> Some(panicVal[1].text),
                            stackTrace |-> TRUE, meta |-> None])
          IN /\ Apply(em)
             /\ pc' = IF em.ok THEN "EMITTED" ELSE "PROPAGATED"
     ELSE /\ UNCHANGED emVars
          /\ pc' = "PROPAGATED"
  /\ UNCHANGED <<aux, variant, rid, req, ops, panicVal, rw, ginErrors, hist, clientClosed>>

(* --- gin_gcplog.go:170-213: the deferred function has no recover() --- *)
GinSize(s) == IF s.written THEN Len(s.body) ELSE -1

Gin(em) ==
  LET status == sink.status
      log == MethodPath(req)
      responseMeta == Some([status |-> sink.status, size |-> GinSize(sink)])
      err == IF Len(ginErrors) > 0 THEN Some(ginErrors[Len(ginErrors)])
             ELSE Some(Errorf(rw.body))
      sev == Classify(status)
  IN CASE sev = "INFO" -> LogRM(em, log, TRUE, responseMeta)
       [] sev = "WARNING" -> WarnRM(em, err, TRUE, responseMeta)
       [] OTHER -> ErrorRM(em, err, TRUE, responseMeta)

GinDeferred(env) ==
  /\ pc \in {"COMPLETED", "PANICKED"}
  /\ variant = "Gin"
  /\ Apply(Gin(Em(env, clientClosed)))
  /\ pc' = IF pc = "PANICKED" THEN "PROPAGATED" ELSE "EMITTED"
  /\ UNCHANGED <<aux, variant, clientClosed, reqVars>>

(* --- mw_gcplog.go:214-273 with part_003:1-187 --- *)
MiddlewareClient(em) ==
  LET status == rw.status
      log == MethodPath(req)
      request == Some([status |-> Status(rw), size |-> Size(rw)])
      sev == Classify(status)
  IN CASE sev = "INFO" -> Log1(em, [log |-> log, request |-> request])
       [] sev = "WARNING" ->
            Warn1(em, [err |-> None, stackTrace |-> FALSE, request |-> request])
       [] OTHER ->
            Error1(em, [err |-> None, stackTrace |-> FALSE, request |-> request])

(* the emission, then the deferred gcplog.Close() *)
AfterRequestClient(env) ==
  /\ pc = "COMPLETED"
  /\ variant = "Client"
  /\ Apply(MiddlewareClient(Em(env, clientClosed)))
  /\ clientClosed' = TRUE
  /\ pc' = "EMITTED"
  /\ UNCHANGED <<aux, variant, reqVars>>

(* deferred functions run last-in first-out: gcplog.Close(), then recover *)
RecoverClient(env) ==
  /\ pc = "PANICKED"
  /\ variant = "Client"
  /\ clientClosed' = TRUE
  /\ sink' = SinkWriteHeader(sink, StatusInternalServerError, FALSE)
  /\ IF IsError(panicVal[1])
     THEN /\ Apply(Error1(Em(env, TRUE),
                          [err |-> Some(panicVal[1].text), stackTrace |-> TRUE,
                           request |-> None]))
          /\ pc' = "EMITTED"
     ELSE /\ UNCHANGED emVars
          /\ pc' = "PROPAGATED"
  /\ UNCHANGED <<aux, variant, rid, req, ops, panicVal, rw, ginErrors, hist>>

(* ------------------------ dispatched goroutines ------------------------ *)
(* a goroutine started by `go g.log(...)` runs: logger.Log(entry) *)
RunLog(g) ==
  /\ BagIn(g, pending)
  /\ g.kind = "log"
  /\ pending' = pending (-) SetToBag({g})
  /\ logSink' = logSink (+) SetToBag({g.item})
  /\ UNCHANGED <<aux, variant, pc, clientClosed, reqVars, errSink, emitCalls, handed>>

(* a goroutine started by `go g.err(...)` runs: errorClient.Report(entry) *)
RunErr(g) ==
  /\ BagIn(g, pending)
  /\ g.kind = "err"
  /\ pending' = pending (-) SetToBag({g})
  /\ errSink' = errSink (+) SetToBag({g.item})
  /\ UNCHANGED <<aux, variant, pc, clientClosed, reqVars, logSink, emitCalls, handed>>

(* ------------- the interceptor in front of a sink that can fail -------- *)
(* one request whose handler sets statuses and writes chunks, each Write   *)
(* on the underlying sink either accepting the chunk or failing            *)
WriterNext ==
  \/ \E r \in Requests : Enter(r)
  \/ Serve
  \/ \E code \in Codes, h \in HeaderLens : HandlerWriteHeader(code, h)
  \/ \E b \in Chunks, res \in WriteResults : HandlerWrite(b, res)
  \/ HandlerReturn

WriterSpec == Init /\ [][WriterNext]_vars

(* ------------------- construction and direct calls --------------------- *)
(* the constructor with its clients created before the identifiers are     *)
(* looked at                                                               *)
NewGcpLogCheckLate(projectId, serviceName, dial) ==
  IF projectId = "" \/ serviceName = ""
  THEN [result |-> "panic", clients |-> 2, instance |-> None]
  ELSE [result |-> "returned", clients |-> 2,
        instance |-> Some([projectId |-> projectId, serviceName |-> serviceName])]

(* gcplog.go:54-98, part_003:50-95, 231-267, 455-491: the check of the     *)
(* identifiers, then logging.NewClient, then errorreporting.NewClient,     *)
(* each ending the process with log.Fatalf when it fails                   *)
NewGcpLogBody(projectId, serviceName, dial) ==
  IF projectId = "" \/ serviceName = ""
  THEN [result |-> "panic", clients |-> 0, instance |-> None]
  ELSE IF dial = "logging.NewClient fails"
  THEN [result |-> "fatal", clients |-> 0, instance |-> None]
  ELSE IF dial = "errorreporting.NewClient fails"
  THEN [result |-> "fatal", clients |-> 1, instance |-> None]
  ELSE [result |-> "returned", clients |-> 2,
        instance |-> Some([projectId |-> projectId, serviceName |-> serviceName])]

LibInit ==
  /\ FlowInit({"Meta"})
  /\ TraceIdle
  /\ GlobalsInit
  /\ LibIdle
  /\ ConcIdle

NotConstructed == instance = None /\ outcome = NoOutcome

(* part_003:45-48 *)
GcplogInit(projectId, serviceName) ==
  /\ NotConstructed
  /\ _projectId' = projectId
  /\ _serviceName' = serviceName
  /\ UNCHANGED <<flowVars, emVars, traceVars, _resource, libVars, concVars>>

Constructed(op, projectId, serviceName, r) ==
  /\ instance' = r.instance
  /\ clients' = r.clients
  /\ outcome' = [op |-> op, projectId |-> projectId,
                 serviceName |-> serviceName, result |-> r.result]

(* part_003:50-95: NewGcpLog(resource) reads the package globals *)
NewGcpLog1(resource, dial) ==
  /\ NotConstructed
  /\ LET r == NewGcpLogBody(_projectId, _serviceName, dial)
     IN /\ Constructed("NewGcpLog1", _projectId, _serviceName, r)
        /\ _resource' = IF r.result = "returned" /\ resource # ""
                        THEN resource ELSE _resource
  /\ UNCHANGED <<flowVars, emVars, traceVars, _projectId, _serviceName, concVars>>

(* gcplog.go:54-98 *)
NewGcpLog(projectId, serviceName, dial) ==
  /\ NotConstructed
  /\ Constructed("NewGcpLog", projectId, serviceName,
                 NewGcpLogBody(projectId, serviceName, dial))
  /\ UNCHANGED <<flowVars, emVars, traceVars, globals, concVars>>

(* a call on the instance gcplog.go's NewGcpLog returned *)
CanCall ==
  /\ instance # None
  /\ outcome.op # "NewGcpLog1"
  /\ outcome.result = "returned"
  /\ Len(handed) < MaxCalls

Called4(op, em) ==
  /\ Apply(em)
  /\ outcome' = [outcome EXCEPT !.op = op,
                                !.result = IF em.ok THEN "returned" ELSE "panic"]
  /\ UNCHANGED <<flowVars, traceVars, globals, instance, clients, concVars>>

(* gcplog.go:112-114 *)
CallLog(log) ==
  /\ CanCall
  /\ Called4("Log", Log4(Em("", FALSE), log))

(* gcplog.go:116-118 *)
CallLogWithMeta(log, meta) ==
  /\ CanCall
  /\ Called4("LogWithMeta", LogWithMeta(Em("", FALSE), log, meta))

(* gcplog.go:120-126 *)
CallWarn(ee, env) ==
  /\ CanCall
  /\ Called4("Warn", Warn4(Em(env, FALSE), ee))

(* gcplog.go:128-134 *)
CallError(ee, env) ==
  /\ CanCall
  /\ Called4("Error", Error4(Em(env, FALSE), ee))

Metas == {[request |-> TRUE], [request |-> FALSE]}
ErrorEntries ==
  [err : {Some(e) : e \in Errs}, stackTrace : BOOLEAN,
   meta : {None} \cup {Some(m) : m \in Metas}]

LibNext ==
  \/ \E p \in ProjectIdArgs, sv \in ServiceNameArgs : GcplogInit(p, sv)
  \/ \E r \in ResourceArgs, d \in Dials : NewGcpLog1(r, d)
  \/ \E p \in ProjectIdArgs, sv \in ServiceNameArgs, d \in Dials : NewGcpLog(p, sv, d)
  \/ \E l \in Logs : CallLog(l)
  \/ \E l \in Logs, m \in Metas : CallLogWithMeta(l, m)
  \/ \E ee \in ErrorEntries, env \in EnvValues : CallWarn(ee, env)
  \/ \E ee \in ErrorEntries, env \in EnvValues : CallError(ee, env)

LibSpec == LibInit /\ [][LibNext]_vars

(* ---------- requests of the per-request-client middleware, concurrent -- *)
(* mw_gcplog.go:214-219: every request runs Init(projectId, serviceName)   *)
(* and NewGcpLog(resource) before anything else, on the goroutine the host *)
(* server gave it and with no lock.  cfg[p] holds the arguments of the     *)
(* Middleware whose fn runs request p; cpc[p] is the statement p executes  *)
(* next; inst[p] is what NewGcpLog has built for p so far.  What follows   *)
(* construction touches only the request's own values and its client.      *)
Procs == 1..MaxConcurrent
Configs == [projectId : {"", "p", "q"}, serviceName : {"s"}, resource : ResourceArgs]

ConcInit ==
  /\ FlowInit({"Client"})
  /\ TraceIdle
  /\ GlobalsInit
  /\ LibIdle
  /\ cpc = [p \in Procs |-> "idle"]
  /\ cfg \in [Procs -> Configs]
  /\ inst = [p \in Procs |-> None]

ConcStep(p, from, to) ==
  /\ cpc[p] = from
  /\ cpc' = [cpc EXCEPT ![p] = to]
  /\ UNCHANGED <<flowVars, emVars, traceVars, libVars, cfg>>

(* the host server calls fn for a request: mw_gcplog.go:216 *)
Arrive(p) ==
  /\ ConcStep(p, "idle", "fn")
  /\ UNCHANGED <<globals, inst>>

(* part_003:46 _projectId = projectId *)
InitProjectId(p) ==
  /\ ConcStep(p, "fn", "Init:47")
  /\ _projectId' = cfg[p].projectId
  /\ UNCHANGED <<_serviceName, _resource, inst>>

(* part_003:47 _serviceName = serviceName *)
InitServiceName(p) ==
  /\ ConcStep(p, "Init:47", "NewGcpLog:52")
  /\ _serviceName' = cfg[p].serviceName
  /\ UNCHANGED <<_projectId, _resource, inst>>

(* part_003:52-54 if _projectId == "" || _serviceName == "" { panic } *)
NewGcpLogCheck(p) ==
  /\ ConcStep(p, "NewGcpLog:52",
              IF _projectId = "" \/ _serviceName = "" THEN "panicked"
              ELSE "NewGcpLog:59")
  /\ UNCHANGED <<globals, inst>>

(* part_003:59-75 the clients are created for _projectId, _serviceName *)
NewGcpLogClients(p) ==
  /\ ConcStep(p, "NewGcpLog:59", "NewGcpLog:77")
  /\ inst' = [inst EXCEPT ![p] =
                Some([clientProject |-> _projectId, projectId |-> "",
                      serviceName |-> ""])]
  /\ UNCHANGED globals

(* part_003:77-83 instance := &gcpLog{projectId: _projectId, ...} *)
NewGcpLogInstance(p) ==
  /\ ConcStep(p, "NewGcpLog:77", "NewGcpLog:84")
  /\ inst' = [inst EXCEPT ![p] =
                Some([inst[p][1] EXCEPT !.projectId = _projectId,
                                        !.serviceName = _serviceName])]
  /\ UNCHANGED globals

(* part_003:84-94 if resource != "" { _resource = resource; ... } *)
NewGcpLogResource(p) ==
  /\ ConcStep(p, "NewGcpLog:84", "constructed")
  /\ _resource' = IF cfg[p].resource # "" THEN cfg[p].resource ELSE _resource
  /\ UNCHANGED <<_projectId, _serviceName, inst>>

ConcNext ==
  \E p \in Procs :
    \/ Arrive(p)
    \/ InitProjectId(p)
    \/ InitServiceName(p)
    \/ NewGcpLogCheck(p)
    \/ NewGcpLogClients(p)
    \/ NewGcpLogInstance(p)
    \/ NewGcpLogResource(p)

ConcSpec == ConcInit /\ [][ConcNext]_vars

(* the package globals the statement at a position writes and reads *)
Writes(at, c) ==
  CASE at = "fn" -> {"_projectId"}
    [] at = "Init:47" -> {"_serviceName"}
    [] at = "NewGcpLog:84" -> IF c.resource # "" THEN {"_resource"} ELSE {}
    [] OTHER -> {}

Reads(at, c) ==
  CASE at \in {"NewGcpLog:52", "NewGcpLog:59", "NewGcpLog:77"} ->
         {"_projectId", "_serviceName"}
    [] at = "NewGcpLog:84" ->
         IF c.resource # "" THEN {"_projectId", "_serviceName"} ELSE {}
    [] OTHER -> {}

(* ---------------- the trace fields of a request-bound entry ------------- *)
(* One X-Cloud-Trace-Context value is drawn and a request carrying it is   *)
(* logged through each emitter; traced holds what the call produced: the   *)
(* Trace, SpanID and TraceSampled of the entry handed to the logger, or    *)
(* that the call panicked.                                                 *)
TraceInit ==
  /\ FlowInit({"RM"})
  /\ traceInput \in TraceInputs
  /\ traced = None
  /\ GlobalsInit
  /\ instance \in {Some([projectId |-> p, serviceName |-> "s"]) : p \in ProjectIds}
  /\ clients = 2
  /\ outcome = NoOutcome
  /\ ConcIdle

Traced(em, t) ==
  Some([emitter |-> em, panicked |-> FALSE, trace |-> t.traceId,
        spanID |-> t.spanId, traceSampled |-> t.traceSampled])

(* part_003:575-594, GcpLog.log with request != nil *)
LogRequest3 ==
  /\ traced = None
  /\ traced' = Traced("log3", parseTrace3(Header(traceInput), instance[1].projectId))
  /\ UNCHANGED <<flowVars, emVars, traceInput, globals, libVars, concVars>>

(* part_003:325-348, GcpLog.log with request != nil: parseRequest reads    *)
(* r.Response.StatusCode first (part_003:375), a nil pointer unless the    *)
(* request came from a client redirect                                     *)
LogRequest2(hasResponse) ==
  /\ traced = None
  /\ traced' = IF hasResponse
               THEN Traced("log2", parseTrace2(Header(traceInput), instance[1].projectId))
               ELSE Some([emitter |-> "log2", panicked |-> TRUE, trace |-> <<>>,
                          spanID |-> <<>>, traceSampled |-> FALSE])
  /\ UNCHANGED <<flowVars, emVars, traceInput, globals, libVars, concVars>>

(* part_000:154 trace := parseTrace(r, gcplog.projectId), carried in       *)
(* LogMetadata.trace (span and traceSampled are never set) and copied by   *)
(* gcplog.go:197-203 when non-empty                                        *)
LogRequest0 ==
  /\ traced = None
  /\ traced' = Traced("log4",
                 [traceId |-> parseTrace0(Header(traceInput), instance[1].projectId),
                  spanId |-> <<>>, traceSampled |-> FALSE])
  /\ UNCHANGED <<flowVars, emVars, traceInput, globals, libVars, concVars>>

TraceNext ==
  \/ LogRequest3
  \/ \E hasResponse \in BOOLEAN : LogRequest2(hasResponse)
  \/ LogRequest0

TraceSpec == TraceInit /\ [][TraceNext]_vars

Next ==
  \/ \E r \in Requests : Enter(r)
  \/ Serve
  \/ \E code \in Codes, h \in HeaderLens : HandlerWriteHeader(code, h)
  \/ \E b \in Chunks, res \in FlowWriteResults : HandlerWrite(b, res)
  \/ \E e \in GinErrors : HandlerGinError(e)
  \/ HandlerReturn
  \/ \E v \in PanicValues : HandlerPanic(v)
  \/ \E env \in EnvValues : AfterRequestRM(env)
  \/ \E env \in EnvValues : RecoverRM(env)
  \/ \E env \in EnvValues : AfterRequestMeta(env)
  \/ \E env \in EnvValues : RecoverMeta(env)
  \/ \E env \in EnvValues : GinDeferred(env)
  \/ \E env \in EnvValues : AfterRequestClient(env)
  \/ \E env \in EnvValues : RecoverClient(env)
  \/ \E g \in BagToSet(pending) : RunLog(g)
  \/ \E g \in BagToSet(pending) : RunErr(g)

Spec == Init /\ [][Next]_vars

(* ============================== properties ============================= *)
ReturnedNormally == pc = "EMITTED" /\ panicVal = None

(* the status the adapter reads after the handler: wrapped.status, or      *)
(* c.Writer.Status() in the gin adapter                                    *)
RecordedStatus == IF variant = "Gin" THEN sink.status ELSE rw.status

(* the WriteHeader calls the interceptor forwarded to the sink *)
Forwarded == SelectSeq(sink.hdrCalls, LAMBDA c : c.wrapped)

(* C1: when the downstream handler returns normally, the adapter emits one *)
(* record whose severity is INFO iff the recorded status s < 400, WARNING  *)
(* iff 400 <= s < 500 and ERROR iff s >= 500, in the net/http adapters and *)
(* in the gin adapter.                                                     *)
C1_SeverityByStatus ==
  ReturnedNormally =>
    /\ Len(handed) = 1
    /\ LET s == RecordedStatus
           sev == handed[1].sev
       IN /\ sev \in {"INFO", "WARNING", "ERROR"}
          /\ (sev = "INFO") <=> (s < 400)
          /\ (sev = "WARNING") <=> (400 <= s /\ s < 500)
          /\ (sev = "ERROR") <=> (s >= 500)

C1_Witness ==
  /\ ReturnedNormally
  /\ variant = "Gin"
  /\ RecordedStatus = 400
  /\ Len(handed) = 1
  /\ handed[1].sev = "WARNING"

(* C7: on the response interceptor only the first WriteHeader call of a    *)
(* request takes effect: the recorded status is the first code, the size   *)
(* holds the header length once, the latch is set and exactly that one     *)
(* call was forwarded to the sink, however many calls follow.              *)
C7_FirstWriteHeaderWins ==
  (variant # "Gin" /\ hist.calls # <<>>) =>
    /\ rw.status = hist.calls[1]
    /\ rw.size = hist.hlen
    /\ rw.wroteHeader
    /\ Len(Forwarded) = 1
    /\ Forwarded[1].code = hist.calls[1]

C7_Witness ==
  /\ variant = "RM"
  /\ Len(hist.calls) >= 2
  /\ hist.calls[1] # hist.calls[2]
  /\ rw.status = hist.calls[1]

(* --------------------------- counting helpers -------------------------- *)
CountIn(B, P(_)) ==
  BagCardinality([x \in {y \in BagToSet(B) : P(y)} |-> B[x]])

(* log entries dispatched or delivered, error reports dispatched or delivered *)
LogCount(sev) ==
  CountIn(logSink, LAMBDA e : e.sev = sev)
  + CountIn(pending, LAMBDA g : g.kind = "log" /\ g.item.sev = sev)

Reports ==
  BagToSet(errSink) \cup {g.item : g \in {x \in BagToSet(pending) : x.kind = "err"}}

ReportCount ==
  BagCardinality(errSink) + CountIn(pending, LAMBDA g : g.kind = "err")

CallCount(sev) == CountIn(emitCalls, LAMBDA c : c.sev = sev)

ProductionCallCount ==
  CountIn(emitCalls, LAMBDA c : c.sev # "INFO" /\ c.env = "production")

(* C2: whatever value the downstream handler panics with, the adapter      *)
(* recovers it at its boundary: the wrapper never exits by a panic that    *)
(* reaches its caller.                                                     *)
C2_PanicNeverPropagates == pc # "PROPAGATED"

(* C3: every request that entered ends in EMITTED, with exactly one log    *)
(* record handed to the emitter for it, never zero and never two, whether  *)
(* the handler returned or panicked.                                       *)
C3_ExactlyOneRecord ==
  /\ Len(handed) <= 1
  /\ (pc \in {"EMITTED", "PROPAGATED"}) => (pc = "EMITTED" /\ Len(handed) = 1)

(* C4: the underlying response sink sees at most one header commit per     *)
(* request: after a panic the status is forced to 500 only if the header   *)
(* was not committed before.                                               *)
C4_AtMostOneHeaderCommit ==
  (variant = "RM") => Len(sink.hdrCalls) <= 1

(* C5: the error-reporting sink receives a call only when GO_ENV was       *)
(* "production" at the emission; with any other value every WARNING and    *)
(* ERROR emission, the one of a recovered panic included, still reaches    *)
(* the log sink and the error-reporting sink receives nothing.             *)
C5_GateAndLogSink ==
  /\ \A r \in Reports : r.env = "production"
  /\ (ProductionCallCount = 0) => (ReportCount = 0)
  /\ LogCount("WARNING") = CallCount("WARNING")
  /\ LogCount("ERROR") = CallCount("ERROR")

(* C6: in production every WARNING and ERROR emission goes to the log sink *)
(* and to the error-reporting sink, each report carrying a stack trace;    *)
(* INFO emissions go to the log sink only.                                 *)
C6_ProductionForwarding ==
  /\ ReportCount = ProductionCallCount
  /\ (ProductionCallCount = CallCount("WARNING") + CallCount("ERROR")) =>
       \A sev \in {"INFO", "WARNING", "ERROR"} : LogCount(sev) = CallCount(sev)
  /\ \A r \in Reports : r.stack

(* C8: size() equals the sum of the lengths of all bytes written plus the  *)
(* header overhead added by the first WriteHeader.                         *)
C8_SizeCountsBody ==
  (variant \in {"RM", "Meta"}) => Size(rw) = hist.wlen + hist.hlen

(* C9: a handler that never sets a status and returns normally yields an   *)
(* INFO record whose recorded status is the implicit 200.                  *)
C9_ImplicitStatus200 ==
  (variant = "RM" /\ ReturnedNormally /\ hist.calls = <<>>) =>
    /\ Len(handed) = 1
    /\ handed[1].sev = "INFO"
    /\ handed[1].status = 200

(* C10: with the default error builder the error value of a WARNING or     *)
(* ERROR record is the captured body text when the body is non-empty and   *)
(* the "<METHOD> <PATH>" text when it is empty.                            *)
C10_DefaultErrorText ==
  (variant = "RM" /\ ReturnedNormally /\ Len(handed) = 1
     /\ handed[1].sev \in {"WARNING", "ERROR"}) =>
    handed[1].payload =
      IF rw.body # <<>> THEN Some(rw.body) ELSE Some(MethodPath(req))

(* ------------------------- trace extractor claims ---------------------- *)
ProjectId == instance[1].projectId

(* C11: for a header of the shape TRACE_ID[/SPAN_ID][;o=TRACE_SAMPLED] the *)
(* pattern-based extractor yields the trace id part (as the name           *)
(* projects/<projectId>/traces/<id> where the extractor qualifies it), the *)
(* span id part, empty when it is absent or exactly "0", and sampled true  *)
(* iff the digit after ";o=" is "1".                                       *)
C11_ShapedHeaderParsed ==
  (traceInput.kind = "shaped" /\ traced # None /\ ~traced[1].panicked
     /\ traced[1].emitter \in {"log2", "log3"}) =>
    LET span == IF traceInput.spanId = None THEN <<>> ELSE traceInput.spanId[1]
    IN /\ traced[1].trace =
            IF traced[1].emitter = "log3"
            THEN TraceName(ProjectId, traceInput.traceId)
            ELSE traceInput.traceId
       /\ traced[1].spanID = IF span = <<"0">> THEN <<>> ELSE span
       /\ traced[1].traceSampled <=> (traceInput.sampled = Some("1"))

C11_Witness ==
  /\ traceInput.kind = "shaped"
  /\ traceInput.spanId = Some(<<"0">>)
  /\ traceInput.sampled = Some("1")
  /\ traced # None
  /\ traced[1].emitter = "log3"
  /\ traced[1].trace = TraceName(ProjectId, traceInput.traceId)
  /\ traced[1].spanID = <<>>
  /\ traced[1].traceSampled

(* a header that is empty or starts with a character outside [a-f0-9] *)
Malformed(h) == h = <<>> \/ h[1] \notin HexLower

(* C12: for an absent, empty or malformed header (one that starts with a   *)
(* character that is not a lowercase hex digit) the entry is still handed  *)
(* to the logger, with an empty trace, an empty span id and sampled false. *)
C12_MalformedHeaderIsNoTrace ==
  (traced # None /\ traced[1].emitter = "log3" /\ Malformed(Header(traceInput))) =>
    /\ ~traced[1].panicked
    /\ traced[1].trace = <<>>
    /\ traced[1].spanID = <<>>
    /\ ~traced[1].traceSampled

(* C18: the trace recorded in an entry is projects/<projectId>/traces/<id> *)
(* for every non-empty extracted trace id, and empty for an empty one, in  *)
(* each emitter that records a trace.                                      *)
C18_QualifiedTraceName ==
  (traced # None /\ ~traced[1].panicked) =>
    LET extracted == IF traced[1].emitter = "log4"
                     THEN SplitFirst(Header(traceInput), 1)
                     ELSE FindStringSubmatch(Header(traceInput))[1]
    IN traced[1].trace =
         IF extracted = <<>> THEN <<>> ELSE TraceName(ProjectId, extracted)

(* ------------------------------ dispatch ------------------------------- *)
(* the code of the wrapper that runs once the handler has returned or      *)
(* panicked, in the adapters whose emitter dispatches with `go`            *)
AsyncAdapterStep ==
  \E env \in EnvValues :
    AfterRequestRM(env) \/ RecoverRM(env) \/ GinDeferred(env)

(* a dispatched goroutine completes its call to the sink *)
EmissionCompletes ==
  \E g \in BagToSet(pending) : RunLog(g) \/ RunErr(g)

(* C13: with the emitter that dispatches with `go`, the wrapper never      *)
(* waits on the sink: once the handler has returned or panicked its        *)
(* remaining code can run whatever emissions are still in flight, and no   *)
(* step in which an emission completes changes the response or the         *)
(* request's progress.                                                     *)
C13_NeverWaitsOnSink ==
  /\ (variant \in {"RM", "Gin"} /\ pc \in {"COMPLETED", "PANICKED"})
       => ENABLED AsyncAdapterStep
  /\ ~ENABLED (EmissionCompletes /\ (pc' # pc \/ sink' # sink \/ rw' # rw))

C13_Witness ==
  /\ variant = "RM"
  /\ rid = MaxRequests
  /\ pc = "EMITTED"
  /\ BagCardinality(pending) >= MaxRequests
  /\ logSink = EmptyBag
  /\ errSink = EmptyBag

(* ---------------------- construction and direct calls ------------------ *)
(* C14: in the JSON-stream emitter every log call returns normally and     *)
(* writes one record; a call that is not request-bound (Log, or Warn/Error *)
(* with an ErrorEntry without meta) writes a record without httpRequest.   *)
C14_JsonEmitterNeverFails ==
  (outcome.op \in {"Log", "LogWithMeta", "Warn", "Error"}) =>
    /\ outcome.result = "returned"
    /\ Len(handed) = BagCardinality(emitCalls)
    /\ (outcome.op = "Log") => ~handed[Len(handed)].http

(* C15: a constructor called with an empty project identifier or an empty  *)
(* service name panics before either remote client is created and returns  *)
(* no instance.                                                            *)
C15_EmptyIdentifierIsFatal ==
  (outcome.op \in {"NewGcpLog", "NewGcpLog1"}
     /\ (outcome.projectId = "" \/ outcome.serviceName = "")) =>
    /\ outcome.result = "panic"
    /\ clients = 0
    /\ instance = None

C15_Witness ==
  /\ outcome.op = "NewGcpLog1"
  /\ outcome.projectId = "p"
  /\ outcome.serviceName = ""
  /\ outcome.result = "panic"
  /\ clients = 0
  /\ instance = None

(* ---------------------------- transparency ----------------------------- *)
RECURSIVE Concat(_)
Concat(ss) == IF ss = <<>> THEN <<>> ELSE Head(ss) \o Concat(Tail(ss))

(* C16: the interceptor is transparent for body writes: the sink receives  *)
(* the chunks the handler passed to Write, in the same order, as it would  *)
(* without the wrapper; each Write returns to the handler the (count,      *)
(* error) the sink returned; and the body snapshot is the concatenation of *)
(* all bytes passed to Write.                                              *)
C16_InterceptorTransparent ==
  /\ Len(sink.writes) = Len(hist.passed)
  /\ \A i \in 1..Len(sink.writes) :
       /\ sink.writes[i].b = hist.passed[i]
       /\ sink.writes[i].ret = hist.rets[i]
  /\ (variant \in {"RM", "Meta", "Gin"}) => rw.body = Concat(hist.passed)

C16_Witness ==
  /\ variant = "RM"
  /\ Len(hist.calls) = 0
  /\ Len(hist.passed) = 2
  /\ hist.passed[1] # hist.passed[2]
  /\ hist.rets[1].err
  /\ ~hist.rets[2].err
  /\ sink.body = hist.passed[2]
  /\ rw.body = hist.passed[1] \o hist.passed[2]

(* ------------------------------ record content ------------------------- *)
(* C17: every WARNING and every ERROR record handed to the logger carries  *)
(* an error value (an INFO record carries the summary text instead), and   *)
(* no error report is made of a nil error.                                 *)
C17_ErrorValueIffNotInfo ==
  /\ \A i \in 1..Len(handed) :
       (handed[i].sev # "INFO") => (handed[i].payload # None)
  /\ \A r \in Reports : ~r.nilErr

(* C20: no record is handed to an emitter client that has been closed:     *)
(* every Log/Warn/Error call of a request comes before the Close of the    *)
(* client it is made on.                                                   *)
C20_NoRecordAfterClose ==
  \A i \in 1..Len(handed) : ~handed[i].closed

(* ------------------------------ concurrency ---------------------------- *)
(* C19: requests handled concurrently share nothing but the emitter        *)
(* client: no two of them are ever about to access the same process-wide   *)
(* variable with one of the accesses a write, and the client a request     *)
(* builds is the one of the identifiers its own middleware was given.      *)
C19_OnlyClientShared ==
  /\ \A p \in Procs, q \in Procs :
       (p # q) =>
         Writes(cpc[p], cfg[p])
           \cap (Reads(cpc[q], cfg[q]) \cup Writes(cpc[q], cfg[q])) = {}
  /\ \A p \in Procs :
       (inst[p] # None) => (inst[p][1].clientProject = cfg[p].projectId)

(* --------------------- recorded and committed status ------------------- *)
(* the status line the client received for the request: the code the       *)
(* underlying ResponseWriter committed                                     *)
CommittedStatus == sink.status

(* C21: the status recorded in the emitted record, and the one used to     *)
(* classify it, equal the status committed to the client, whatever the     *)
(* handler did: WriteHeader alone, Write with no WriteHeader before it,    *)
(* WriteHeader after a Write, a panic before or after the header was       *)
(* committed.                                                              *)
C21_RecordedStatusIsCommitted ==
  (variant = "RM" /\ pc = "EMITTED" /\ Len(handed) = 1) =>
    /\ handed[1].status = CommittedStatus
    /\ handed[1].sev = Classify(CommittedStatus)

(* ---------------------- the two trace derivations ---------------------- *)
(* C22: where the trace is derived by splitting the header on "/", the     *)
(* recorded trace name holds the TRACE_ID part of the header only, also    *)
(* for a header with no span part such as "abc123;o=1": it is              *)
(* projects/<projectId>/traces/<TRACE_ID> without the ";o=..." suffix, and *)
(* it is the trace the pattern-based extractor yields for that header.     *)
C22_SplitTraceIsTraceIdOnly ==
  (traceInput.kind = "shaped" /\ traced # None /\ traced[1].emitter = "log4") =>
    /\ traced[1].trace = TraceName(ProjectId, traceInput.traceId)
    /\ traced[1].trace = parseTrace3(Header(traceInput), ProjectId).traceId

====
